---- MODULE Spec2Model ----
(***************************************************************************)
(* Model of cloudknot/config.py: the INI config file that tracks AWS       *)
(* resource identifiers, the process-wide parser object CONFIG, the region *)
(* lookup chain and the region-scoped boto3 clients.                       *)
(*                                                                         *)
(* A parsed config document is a record [secs, items]: secs is the set of  *)
(* section names, items the set of <<section, key, value>> options.  Keys  *)
(* are what the parser stores, i.e. option names after optionxform.        *)
(* Option and value strings are identifier-like (no white space, no '%',   *)
(* no delimiters), as the resource names, ids and region names the         *)
(* package stores are.  The file only ever holds what this module wrote,   *)
(* so it has no [DEFAULT] entries (add_section refuses that name).         *)
(***************************************************************************)
EXTENDS Integers, Sequences, FiniteSets, TLC

VARIABLES file, CONFIG, clients, pc, todo, last,
          rpc, rarg, rsnap, rcfg, writer, nops

vars == <<file, CONFIG, clients, pc, todo, last,
          rpc, rarg, rsnap, rcfg, writer, nops>>

raceVars == <<rpc, rarg, rsnap, rcfg, writer, nops>>

(* ---------------------------- bounds ----------------------------------- *)

MaxEntries == 2
MaxOps == 2

(* ---------------------------- universes -------------------------------- *)

None == "None"

approved_sections ==
    <<"aws", "roles", "vpc", "security-groups", "docker-repos",
      "job-definitions", "compute-environments", "job-queues", "jobs">>

default_section == "DEFAULT"

fallback_region == "us-east-1"

Regions == {"eu-west-1", "mars-1"}

SectionArgs == {"aws", "roles", "junk", default_section}

OptionArgs == {"region", "R1"}

(* AWS_DEFAULT_REGION, and default.region of ~/.aws/config, as a call of   *)
(* get_region may find them.                                               *)
EnvValues == {None, "eu-west-1"}

AmbientValues == {"nofile", "noregion", "mars-1"}

Values == {"us-east-1", "eu-west-1"}

Catalogs == {{"us-east-1"}, {"us-east-1", "eu-west-1"}}

ClientNames == <<"iam", "ec2", "batch", "ecr">>

Outcomes == {"exists", "notfound", "error"}

Range(f) == {f[i] : i \in DOMAIN f}

(* ---------------------------- the parser ------------------------------- *)

optionxform(o) == IF o = "R1" THEN "r1" ELSE o

EmptyDoc == [secs |-> {}, items |-> {}]

sections(doc) == doc.secs

has_section(doc, s) == s \in doc.secs

has_option(doc, s, o) ==
    /\ s \in doc.secs
    /\ \E it \in doc.items : it[1] = s /\ it[2] = optionxform(o)

get(doc, s, o) ==
    LET hit == {it \in doc.items : it[1] = s /\ it[2] = optionxform(o)}
    IN  (CHOOSE it \in hit : TRUE)[3]

options(doc, s) == {it[2] : it \in {i \in doc.items : i[1] = s}}

add_section(doc, s) == [doc EXCEPT !.secs = @ \cup {s}]

set(doc, s, o, v) ==
    [doc EXCEPT !.items =
        {it \in @ : ~(it[1] = s /\ it[2] = optionxform(o))}
            \cup {<<s, optionxform(o), v>>}]

remove_option(doc, s, o) ==
    [doc EXCEPT !.items =
        {it \in @ : ~(it[1] = s /\ it[2] = optionxform(o))}]

remove_section(doc, s) ==
    [secs |-> doc.secs \ {s}, items |-> {it \in doc.items : it[1] # s}]

(* CONFIG.clear(); CONFIG.read(config_file): the parser ends up holding    *)
(* the sections of the file, every option name passed through optionxform. *)
read(doc) ==
    [secs  |-> doc.secs,
     items |-> {<<it[1], optionxform(it[2]), it[3]>> : it \in doc.items}]

(* The outcome of one call: the parser object and the file it leaves, the  *)
(* exception it raises (None if it returns), the value it returns and      *)
(* whether it opened the file for writing.                                 *)
Res(cfg, f, err, ret, wrote) ==
    [config |-> cfg, file |-> f, err |-> err, ret |-> ret, wrote |-> wrote]

(* ---------------------------- get_region ------------------------------- *)

(* Variant: the AWS config file is consulted before the environment. *)
region_fallback_swapped(e, a) ==
    IF a \notin {"nofile", "noregion"} THEN a
    ELSE IF e # None THEN e
    ELSE fallback_region

(* The fallback chain of get_region: AWS_DEFAULT_REGION, then the region   *)
(* of the [default] section of ~/.aws/config, then us-east-1.  e is the    *)
(* environment variable (None when unset); a is "nofile" when the AWS      *)
(* config file is missing, "noregion" when it has no default.region.       *)
region_fallback(e, a) ==
    IF e # None THEN e
    ELSE IF a = "nofile" THEN fallback_region
    ELSE IF a = "noregion" THEN fallback_region
    ELSE a

(* Variant: the resolved region is returned but not written back. *)
get_region_run_nowrite(cfg0, doc, e, a) ==
    LET cfg == read(doc) IN
    IF has_section(cfg, "aws") /\ has_option(cfg, "aws", "region")
    THEN Res(cfg, doc, None, get(cfg, "aws", "region"), FALSE)
    ELSE Res(cfg, doc, None, region_fallback(e, a), FALSE)

get_region_run(cfg0, doc, e, a) ==
    LET cfg == read(doc) IN
    IF has_section(cfg, "aws") /\ has_option(cfg, "aws", "region")
    THEN Res(cfg, doc, None, get(cfg, "aws", "region"), FALSE)
    ELSE LET region == region_fallback(e, a)
             c1 == IF ~has_section(cfg, "aws")
                   THEN add_section(cfg, "aws") ELSE cfg
             c2 == set(c1, "aws", "region", region)
         IN  Res(c2, c2, None, region, TRUE)

(* ---------------------------- set_region ------------------------------- *)

(* Variant: the region is set in the parser object but never written. *)
set_region_run_unsaved(cfg0, doc, region, region_names) ==
    IF region \notin region_names
    THEN Res(cfg0, doc, "KeyError", None, FALSE)
    ELSE LET cfg == read(doc)
             c1 == IF ~has_section(cfg, "aws")
                   THEN add_section(cfg, "aws") ELSE cfg
         IN  Res(set(c1, "aws", "region", region), doc, None, None, FALSE)

(* Lines 124-141: validation against describe_regions, then the write.     *)
(* The message of the ValueError is built with                             *)
(* '... {regions:s}'.format(str(region_names)): a named field with only a  *)
(* positional argument, so str.format raises KeyError('regions') and the   *)
(* ValueError is never constructed.                                        *)
set_region_run(cfg0, doc, region, region_names) ==
    IF region \notin region_names
    THEN Res(cfg0, doc, "KeyError", None, FALSE)
    ELSE LET cfg == read(doc)
             c1 == IF ~has_section(cfg, "aws")
                   THEN add_section(cfg, "aws") ELSE cfg
             c2 == set(c1, "aws", "region", region)
         IN  Res(c2, c2, None, None, TRUE)

(* ---------------------------- add_resource ----------------------------- *)

(* Variant: the parser object is not reloaded from the file first. *)
add_resource_run_stale(cfg0, doc, section, option, value) ==
    IF section \notin sections(cfg0) /\ section = default_section
    THEN Res(cfg0, doc, "ValueError", None, FALSE)
    ELSE LET c1 == IF section \notin sections(cfg0)
                   THEN add_section(cfg0, section) ELSE cfg0
             c2 == set(c1, section, option, value)
         IN  Res(c2, c2, None, None, TRUE)

add_resource_run(cfg0, doc, section, option, value) ==
    LET cfg == read(doc) IN
    IF section \notin sections(cfg) /\ section = default_section
    THEN Res(cfg, doc, "ValueError", None, FALSE)
    ELSE LET c1 == IF section \notin sections(cfg)
                   THEN add_section(cfg, section) ELSE cfg
             c2 == set(c1, section, option, value)
         IN  Res(c2, c2, None, None, TRUE)

(* ---------------------------- remove_resource -------------------------- *)

(* Variant: a missing option is reported as an error. *)
remove_resource_run_strict(cfg0, doc, section, option) ==
    LET cfg == read(doc) IN
    IF section # default_section /\ ~has_section(cfg, section)
    THEN Res(cfg, doc, "NoSectionError", None, FALSE)
    ELSE IF section = default_section \/ ~has_option(cfg, section, option)
    THEN Res(cfg, doc, "NoOptionError", None, FALSE)
    ELSE LET c1 == remove_option(cfg, section, option)
         IN  Res(c1, c1, None, None, TRUE)

(* CONFIG.remove_option raises NoSectionError for a missing section (the   *)
(* DEFAULT section always exists) and returns False, without raising, for  *)
(* a missing option.                                                       *)
remove_resource_run(cfg0, doc, section, option) ==
    LET cfg == read(doc) IN
    IF section # default_section /\ ~has_section(cfg, section)
    THEN Res(cfg, doc, "NoSectionError", None, FALSE)
    ELSE LET c1 == IF section = default_section
                   THEN cfg ELSE remove_option(cfg, section, option)
         IN  Res(c1, c1, None, None, TRUE)

(* ---------------------------- verify_sections -------------------------- *)

(* sec.split(' ', 1)[0] for the section names of the model *)
first_word(sec) == IF sec = "pars a" THEN "pars" ELSE sec

section_approved(sec) ==
    \/ sec \in Range(approved_sections)
    \/ first_word(sec) \in {"pars", "jars"}

RECURSIVE remove_sections(_, _)
remove_sections(cfg, todel) ==
    IF todel = {} THEN cfg
    ELSE LET s == CHOOSE x \in todel : TRUE
         IN  remove_sections(remove_section(cfg, s), todel \ {s})

(* The unapproved sections are removed from the parser object; the         *)
(* function returns without opening the file for writing.                  *)
verify_sections_run(cfg0, doc) ==
    LET cfg == read(doc)
        c1  == remove_sections(cfg,
                   {s \in sections(cfg) : ~section_approved(s)})
    IN  Res(c1, doc, None, None, FALSE)

(* ---------------------------- prune ------------------------------------ *)

(* The sections prune() walks, in the order of its loops. *)
PruneSections ==
    <<"roles", "vpc", "security-groups", "docker-repos", "job-definitions",
      "compute-environments", "job-queues", "jobs">>

(* The options of the file that prune() runs an existence check for. *)
PruneEntries(doc) ==
    {<<it[1], it[2]>> : it \in
        {i \in doc.items : i[1] \in Range(PruneSections) \ {"docker-repos"}}}

(* Variant: every exception of the existence check is taken for 'does not *)
(* exist'.                                                                 *)
RECURSIVE prune_section_catchall(_, _, _, _)
prune_section_catchall(acc, s, keys, out) ==
    IF keys = <<>> THEN acc
    ELSE LET k    == Head(keys)
             o    == out[<<s, k>>]
             seen == acc.checked \cup {<<s, k, o>>}
         IN  IF o \in {"notfound", "error"}
             THEN prune_section_catchall(
                      [acc EXCEPT !.config = remove_option(@, s, k),
                                  !.checked = seen],
                      s, Tail(keys), out)
             ELSE prune_section_catchall([acc EXCEPT !.checked = seen],
                                         s, Tail(keys), out)

(* One loop of prune(): keys is what is left of the list CONFIG.options()  *)
(* returned, out the outcome of each existence check.  acc carries the     *)
(* parser object, the exception raised so far and the checks made.         *)
RECURSIVE prune_section(_, _, _, _)
prune_section(acc, s, keys, out) ==
    IF keys = <<>> THEN acc
    ELSE LET k    == Head(keys)
             o    == out[<<s, k>>]
             seen == acc.checked \cup {<<s, k, o>>}
         IN  IF o = "error"
             THEN [acc EXCEPT !.err = "Exception", !.checked = seen]
             ELSE IF o = "notfound"
             THEN prune_section(
                      [acc EXCEPT !.config = remove_option(@, s, k),
                                  !.checked = seen],
                      s, Tail(keys), out)
             ELSE prune_section([acc EXCEPT !.checked = seen],
                                s, Tail(keys), out)

(* The loops of prune() from the i-th on.  CONFIG.options(section) raises  *)
(* NoSectionError when the file has no such section; the docker-repos      *)
(* loop checks nothing.                                                    *)
RECURSIVE prune_loops(_, _, _, _)
prune_loops(acc, i, order, out) ==
    IF i > Len(PruneSections) THEN acc
    ELSE LET s == PruneSections[i] IN
         IF ~has_section(acc.config, s)
         THEN [acc EXCEPT !.err = "NoSectionError"]
         ELSE IF s = "docker-repos"
         THEN prune_loops(acc, i + 1, order, out)
         ELSE LET keys == SelectSeq(order,
                              LAMBDA k : k \in options(acc.config, s))
                  a2   == prune_section(acc, s, keys, out)
              IN  IF a2.err # None THEN a2
                  ELSE prune_loops(a2, i + 1, order, out)

(* prune(): verify_sections(), a fresh CONFIG.clear()/read() that undoes   *)
(* what verify_sections removed, then the loops.  There is no write.       *)
(* order is the order in which the file lists the option names.            *)
prune_run(cfg0, doc, order, out) ==
    LET v   == verify_sections_run(cfg0, doc)
        cfg == read(v.file)
    IN  prune_loops([config |-> cfg, err |-> None, checked |-> {}],
                    1, order, out)

(* ---------------------------- state ------------------------------------ *)

(* file     the parsed content of the cloudknot config file                *)
(* CONFIG   the module-level parser object                                 *)
(* clients  the region each entry of aws.clients is bound to               *)
(* pc, todo the position inside set_region: the clients left to rebind     *)
(* last     the call made last: arguments, state before it, outcome        *)

FullDoc == [secs |-> Range(approved_sections) \cup {"pars a"}, items |-> {}]

Call(op, section, option, value, region_names, e, a) ==
    [op |-> op, section |-> section, option |-> option, value |-> value,
     catalog |-> region_names, env |-> e, ambient |-> a,
     pre |-> file, preClients |-> clients,
     err |-> None, ret |-> None, wrote |-> FALSE, checked |-> {}]

Done(call, r) ==
    [call EXCEPT !.err = r.err, !.ret = r.ret, !.wrote = r.wrote]

Procs == {1, 2}

RaceIdle ==
    /\ rpc = [p \in Procs |-> "off"]
    /\ rarg = [p \in Procs |-> <<None, None, None, None>>]
    /\ rsnap = [p \in Procs |-> EmptyDoc]
    /\ rcfg = [p \in Procs |-> EmptyDoc]
    /\ writer = <<>>
    /\ nops = 0

Init ==
    /\ file \in {EmptyDoc, FullDoc}
    /\ CONFIG = EmptyDoc
    /\ clients = [c \in Range(ClientNames) |-> fallback_region]
    /\ pc = "idle"
    /\ todo = <<>>
    /\ last = Call("none", None, None, None, {}, None, None)
    /\ RaceIdle

(* ---------------------------- actions ---------------------------------- *)

get_region ==
    /\ pc = "idle"
    /\ \E e \in EnvValues, a \in AmbientValues :
        LET r == get_region_run(CONFIG, file, e, a) IN
        /\ CONFIG' = r.config
        /\ file' = r.file
        /\ last' = Done(Call("get_region", None, None, None, {}, e, a), r)
    /\ UNCHANGED <<clients, pc, todo>>
    /\ UNCHANGED raceVars

(* Lines 124-141 of set_region; on success the four assignments to         *)
(* aws.clients follow, one rebind step each.                               *)
set_region ==
    /\ pc = "idle"
    /\ \E region \in Regions, region_names \in Catalogs :
        LET r == set_region_run(CONFIG, file, region, region_names) IN
        /\ CONFIG' = r.config
        /\ file' = r.file
        /\ last' = Done(Call("set_region", None, None, region, region_names, None, None), r)
        /\ IF r.err = None
           THEN pc' = "rebind" /\ todo' = ClientNames
           ELSE pc' = "idle" /\ todo' = <<>>
    /\ UNCHANGED clients
    /\ UNCHANGED raceVars

(* Lines 145-148: aws.clients[name] = boto3.client(name, region_name=region) *)
rebind ==
    /\ pc = "rebind"
    /\ clients' = [clients EXCEPT ![Head(todo)] = last.value]
    /\ todo' = Tail(todo)
    /\ pc' = IF Tail(todo) = <<>> THEN "idle" ELSE "rebind"
    /\ UNCHANGED <<file, CONFIG, last>>
    /\ UNCHANGED raceVars

add_resource ==
    /\ pc = "idle"
    /\ \E section \in SectionArgs, option \in OptionArgs, value \in Values :
        /\ \/ Cardinality(file.items) < MaxEntries
           \/ has_option(file, section, option)
        /\ LET r == add_resource_run(CONFIG, file, section, option, value) IN
            /\ CONFIG' = r.config
            /\ file' = r.file
            /\ last' = Done(Call("add_resource", section, option, value, {}, None, None), r)
    /\ UNCHANGED <<clients, pc, todo>>
    /\ UNCHANGED raceVars

remove_resource ==
    /\ pc = "idle"
    /\ \E section \in SectionArgs, option \in OptionArgs :
        LET r == remove_resource_run(CONFIG, file, section, option) IN
        /\ CONFIG' = r.config
        /\ file' = r.file
        /\ last' = Done(Call("remove_resource", section, option, None, {}, None, None), r)
    /\ UNCHANGED <<clients, pc, todo>>
    /\ UNCHANGED raceVars

verify_sections ==
    /\ pc = "idle"
    /\ LET r == verify_sections_run(CONFIG, file) IN
        /\ CONFIG' = r.config
        /\ file' = r.file
        /\ last' = Done(Call("verify_sections", None, None, None, {}, None, None), r)
    /\ UNCHANGED <<clients, pc, todo>>
    /\ UNCHANGED raceVars

Keys == {optionxform(o) : o \in OptionArgs}

Orders == {q \in [1..Cardinality(Keys) -> Keys] : Range(q) = Keys}

prune ==
    /\ pc = "idle"
    /\ \E order \in Orders, out \in [PruneEntries(file) -> Outcomes] :
        LET a == prune_run(CONFIG, file, order, out) IN
        /\ CONFIG' = a.config
        /\ last' = [Call("prune", None, None, None, {}, None, None) EXCEPT
                        !.err = a.err, !.checked = a.checked]
    /\ UNCHANGED <<file, clients, pc, todo>>
    /\ UNCHANGED raceVars

(* The config store: resources, sections, pruning and the region lookup. *)
Next ==
    \/ get_region
    \/ add_resource
    \/ remove_resource
    \/ verify_sections
    \/ prune

Spec == Init /\ [][Next]_vars

(* The region: lookup, set_region with its client rebinds, and removal of  *)
(* options, on a file that may already hold resources.                     *)
SampleDoc == set(add_section(FullDoc, "junk"), "junk", "R1", "us-east-1")

InitRegion ==
    /\ file \in {EmptyDoc, FullDoc, SampleDoc}
    /\ CONFIG = EmptyDoc
    /\ clients = [c \in Range(ClientNames) |-> fallback_region]
    /\ pc = "idle"
    /\ todo = <<>>
    /\ last = Call("none", None, None, None, {}, None, None)
    /\ RaceIdle

NextRegion ==
    \/ get_region
    \/ set_region
    \/ rebind
    \/ remove_resource

SpecRegion == InitRegion /\ [][NextRegion]_vars

(* ---------------------------- concurrent processes --------------------- *)

(* Several processes (each with its own CONFIG object, rcfg) call          *)
(* add_resource / remove_resource on the same file.  A call is three       *)
(* steps: read the file and change the parser object (lines 169-174,       *)
(* 194-197); open(config_file, 'w'), which truncates the file; and         *)
(* CONFIG.write(f) with the close that flushes it.  Nothing locks the      *)
(* file.                                                                   *)
(* rpc    position of each process: "idle", "loaded", "opened"             *)
(* rarg   its current call <<op, section, option, value>>                  *)
(* rsnap  the document it read                                             *)
(* rcfg   its parser object                                                *)
(* writer the processes that completed a write, in order                   *)
(* nops   number of calls started                                          *)

RaceSections == {"aws", "roles"}

RaceValues == {"us-east-1"}

InitRace ==
    /\ file \in {EmptyDoc, FullDoc}
    /\ CONFIG = EmptyDoc
    /\ clients = [c \in Range(ClientNames) |-> fallback_region]
    /\ pc = "idle"
    /\ todo = <<>>
    /\ last = Call("none", None, None, None, {}, None, None)
    /\ rpc = [p \in Procs |-> "idle"]
    /\ rarg = [p \in Procs |-> <<None, None, None, None>>]
    /\ rsnap = [p \in Procs |-> EmptyDoc]
    /\ rcfg = [p \in Procs |-> EmptyDoc]
    /\ writer = <<>>
    /\ nops = 0

RECURSIVE SumLen(_)
SumLen(S) ==
    IF S = {} THEN 0
    ELSE LET x == CHOOSE y \in S : TRUE IN x[2] + SumLen(S \ {x})

(* Number of characters CONFIG.write emits: "[section]\n", one             *)
(* "key = value\n" per option, and a blank line after each section.        *)
TextLen(doc) ==
    SumLen({<<sec, Len(sec) + 4>> : sec \in doc.secs})
      + SumLen({<<it, Len(it[2]) + Len(it[3]) + 4>> : it \in doc.items})

(* A file whose text is that of cfg followed by the tail of a longer text  *)
(* another process wrote: the tail shows up as the section TornTail.       *)
TornTail == "<torn tail>"

Torn(cfg) == [cfg EXCEPT !.secs = @ \cup {TornTail}]

(* Variant: the text is added to what the file holds. *)
written_merged(cfg, onDisk) ==
    [secs |-> cfg.secs \cup onDisk.secs, items |-> cfg.items \cup onDisk.items]

(* What the file holds once CONFIG.write(f) is flushed and closed: the     *)
(* text goes to offset 0 of a file opened with 'w' and replaces what is    *)
(* there (nothing, unless another process wrote after the open) up to its  *)
(* own length.  With two processes the text on disk is never itself torn   *)
(* at this point, every open having truncated the file.                    *)
written(cfg, onDisk) ==
    IF TextLen(cfg) >= TextLen(onDisk) THEN cfg ELSE Torn(cfg)

race_load(p, call, r) ==
    /\ nops' = nops + 1
    /\ rcfg' = [rcfg EXCEPT ![p] = r.config]
    /\ IF r.err = None
       THEN /\ rpc' = [rpc EXCEPT ![p] = "loaded"]
            /\ rarg' = [rarg EXCEPT ![p] = call]
            /\ rsnap' = [rsnap EXCEPT ![p] = read(file)]
       ELSE UNCHANGED <<rpc, rarg, rsnap>>
    /\ UNCHANGED <<file, writer>>
    /\ UNCHANGED <<CONFIG, clients, pc, todo, last>>

race_add_resource(p) ==
    /\ rpc[p] = "idle"
    /\ nops < MaxOps
    /\ \E section \in RaceSections, option \in OptionArgs, value \in RaceValues :
        race_load(p, <<"add_resource", section, option, value>>,
                  add_resource_run(rcfg[p], file, section, option, value))

race_remove_resource(p) ==
    /\ rpc[p] = "idle"
    /\ nops < MaxOps
    /\ \E section \in RaceSections, option \in OptionArgs :
        race_load(p, <<"remove_resource", section, option, None>>,
                  remove_resource_run(rcfg[p], file, section, option))

race_open(p) ==
    /\ rpc[p] = "loaded"
    /\ rpc' = [rpc EXCEPT ![p] = "opened"]
    /\ file' = EmptyDoc
    /\ UNCHANGED <<rarg, rsnap, rcfg, writer, nops>>
    /\ UNCHANGED <<CONFIG, clients, pc, todo, last>>

race_write(p) ==
    /\ rpc[p] = "opened"
    /\ rpc' = [rpc EXCEPT ![p] = "idle"]
    /\ file' = written(rcfg[p], file)
    /\ writer' = Append(writer, p)
    /\ UNCHANGED <<rarg, rsnap, rcfg, nops>>
    /\ UNCHANGED <<CONFIG, clients, pc, todo, last>>

NextRace ==
    \/ \E p \in Procs : race_add_resource(p)
    \/ \E p \in Procs : race_remove_resource(p)
    \/ \E p \in Procs : race_open(p)
    \/ \E p \in Procs : race_write(p)

SpecRace == InitRace /\ [][NextRace]_vars

(* ---------------------------- properties ------------------------------- *)

Returned(op) == last.op = op /\ last.err = None

(* The value the document holds under section.key, None if there is none. *)
Lookup(doc, s, k) ==
    IF \E it \in doc.items : it[1] = s /\ it[2] = k
    THEN (CHOOSE it \in doc.items : it[1] = s /\ it[2] = k)[3]
    ELSE None

LowerCase(o) == IF o = "R1" THEN "r1" ELSE o

(* doc with the one key s.k set to v, nothing else touched *)
WithKey(doc, s, k, v) ==
    [secs  |-> doc.secs \cup {s},
     items |-> {it \in doc.items : it[1] # s \/ it[2] # k} \cup {<<s, k, v>>}]

(* C1: after add_resource(section, option, value) returns, the file is the *)
(* file before the call with exactly that one key set to value: section    *)
(* created if absent, an existing value overwritten, all else unchanged.   *)
C1_AddResourceUpserts ==
    Returned("add_resource") =>
        /\ last.wrote
        /\ Lookup(file, last.section, LowerCase(last.option)) = last.value
        /\ file = WithKey(last.pre, last.section, LowerCase(last.option),
                          last.value)

C1_Witness ==
    /\ Returned("add_resource")
    /\ Lookup(last.pre, last.section, LowerCase(last.option))
           \notin {None, last.value}
    /\ \E it \in last.pre.items : it[1] # last.section
    /\ Lookup(file, last.section, LowerCase(last.option)) = last.value

(* C2 as claimed: remove_resource of an option that does not exist in an   *)
(* existing section fails with an option-not-found error and leaves the    *)
(* file unchanged.                                                         *)
MissingOptionRemoved ==
    /\ last.op = "remove_resource"
    /\ last.section \in last.pre.secs
    /\ Lookup(last.pre, last.section, LowerCase(last.option)) = None

C2_Original ==
    MissingOptionRemoved => (last.err = "NoOptionError" /\ file = last.pre)

(* C2 amended: remove_resource of an option that does not exist in an      *)
(* existing section returns without raising and the content of the file is *)
(* unchanged.                                                              *)
C2_MissingOptionIsNoError ==
    MissingOptionRemoved => (last.err = None /\ file = last.pre)

C2_Witness ==
    /\ MissingOptionRemoved
    /\ last.pre.items # {}
    /\ last.err = None
    /\ last.wrote

(* C3: get_region returns the first source present at the call: the file's *)
(* aws.region, else AWS_DEFAULT_REGION, else default.region of the AWS     *)
(* config file, else 'us-east-1'.                                          *)
FileRegion(doc) == Lookup(doc, "aws", "region")

AmbientRegion(a) == IF a \in {"nofile", "noregion"} THEN None ELSE a

C3_RegionPrecedence ==
    last.op = "get_region" =>
        /\ last.err = None
        /\ FileRegion(last.pre) # None => last.ret = FileRegion(last.pre)
        /\ (FileRegion(last.pre) = None /\ last.env # None)
               => last.ret = last.env
        /\ (FileRegion(last.pre) = None /\ last.env = None
              /\ AmbientRegion(last.ambient) # None)
               => last.ret = AmbientRegion(last.ambient)
        /\ (FileRegion(last.pre) = None /\ last.env = None
              /\ AmbientRegion(last.ambient) = None)
               => last.ret = "us-east-1"

C3_Witness ==
    /\ last.op = "get_region"
    /\ FileRegion(last.pre) = None
    /\ last.env = "eu-west-1"
    /\ last.ambient = "mars-1"
    /\ last.ret = "eu-west-1"

(* C4: get_region called while the file has no aws.region writes the       *)
(* resolved value back, leaving everything else in the file unchanged;     *)
(* called while the file has aws.region it does not write the file.  After *)
(* any call the file's aws.region is the returned value.                   *)
C4_RegionWrittenBack ==
    last.op = "get_region" =>
        /\ FileRegion(file) = last.ret
        /\ FileRegion(last.pre) = None =>
               /\ last.wrote
               /\ file = WithKey(last.pre, "aws", "region", last.ret)
        /\ FileRegion(last.pre) # None =>
               /\ ~last.wrote
               /\ file = last.pre

C4_Witness ==
    /\ last.op = "get_region"
    /\ FileRegion(last.pre) = None
    /\ "aws" \notin last.pre.secs
    /\ last.pre.items # {}
    /\ last.wrote
    /\ FileRegion(file) = last.ret

(* C5 as claimed: set_region with a region that is not in the catalog      *)
(* fails with ValueError and leaves the stored region and the four clients *)
(* unchanged.                                                              *)
C5_Original ==
    (last.op = "set_region" /\ last.value \notin last.catalog) =>
        /\ last.err = "ValueError"
        /\ file = last.pre
        /\ clients = last.preClients

(* C6: after set_region(region) succeeds the file's aws.region is region,  *)
(* every client is bound to region, a following get_region returns region  *)
(* whatever the environment holds, and the region is in the file before    *)
(* the first client is rebound.                                            *)
C6_RegionSetEverywhere ==
    Returned("set_region") =>
        /\ FileRegion(file) = last.value
        /\ \A e \in EnvValues, a \in AmbientValues :
               get_region_run(CONFIG, file, e, a).ret = last.value
        /\ \A c \in Range(ClientNames) :
               IF c \in Range(todo)
               THEN clients[c] = last.preClients[c]
               ELSE clients[c] = last.value
        /\ pc = "idle" <=> todo = <<>>

C6_Witness ==
    /\ Returned("set_region")
    /\ pc = "idle"
    /\ FileRegion(last.pre) \notin {None, last.value}
    /\ \A c \in Range(ClientNames) :
           clients[c] = last.value /\ last.preClients[c] # last.value

Approved(sec) ==
    \/ sec \in {"aws", "roles", "vpc", "security-groups", "docker-repos",
                "job-definitions", "compute-environments", "job-queues",
                "jobs"}
    \/ sec = "pars a"

(* C7 as claimed: after verify_sections returns, a fresh read of the file  *)
(* shows no section outside the approved list and the pars/jars pattern,   *)
(* and every approved section with its options unchanged.                  *)
C7_Original ==
    Returned("verify_sections") =>
        /\ \A sec \in file.secs : Approved(sec)
        /\ \A sec \in last.pre.secs : Approved(sec) => sec \in file.secs
        /\ \A it \in last.pre.items : Approved(it[1]) => it \in file.items

(* The entries whose existence check signalled 'does not exist'. *)
NotFound == {it \in last.pre.items : <<it[1], it[2], "notfound">> \in last.checked}

(* C8 as claimed: after prune() returns, a fresh read of the file shows in *)
(* the pruned sections exactly the entries whose check did not signal      *)
(* 'does not exist', docker-repos unchanged and no unapproved section.     *)
C8_Original ==
    Returned("prune") =>
        /\ file.items = {it \in last.pre.items : Approved(it[1])} \ NotFound
        /\ \A sec \in file.secs : Approved(sec)

(* C9: when an existence check of prune() fails with an error other than   *)
(* 'does not exist', prune() raises it, and the removals made for the      *)
(* entries checked before it stay in the parser object CONFIG: nothing is  *)
(* rolled back and no later entry is touched.                              *)
CheckFailed == last.op = "prune" /\ \E c \in last.checked : c[3] = "error"

C9_NoRollback ==
    CheckFailed =>
        /\ last.err = "Exception"
        /\ Cardinality({c \in last.checked : c[3] = "error"}) = 1
        /\ CONFIG.secs = last.pre.secs
        /\ CONFIG.items = last.pre.items \ NotFound

C9_Witness ==
    /\ CheckFailed
    /\ last.err = "Exception"
    /\ NotFound # {}
    /\ CONFIG.items # last.pre.items
    /\ \E it \in CONFIG.items : <<it[1], it[2], "error">> \in last.checked

(* C10: with two processes and no lock the final file is what the last     *)
(* writer read plus its own change (followed by a torn tail if the two     *)
(* rewrites overlapped), whatever the other process wrote in between; the  *)
(* witness is a final state that lost the other's update.                  *)
AllIdle == \A p \in Procs : rpc[p] = "idle"

LastWriter == writer[Len(writer)]

OwnChange(snap, call) ==
    IF call[1] = "add_resource"
    THEN WithKey(snap, call[2], LowerCase(call[3]), call[4])
    ELSE [snap EXCEPT !.items =
             {it \in @ : it[1] # call[2] \/ it[2] # LowerCase(call[3])}]

C10_LastWriterWins ==
    (AllIdle /\ writer # <<>>) =>
        LET view == OwnChange(rsnap[LastWriter], rarg[LastWriter])
        IN  file = view \/ file = [view EXCEPT !.secs = @ \cup {TornTail}]

C10_Witness ==
    /\ AllIdle
    /\ writer = <<1, 2>>
    /\ TornTail \notin file.secs
    /\ rarg[1][1] = "add_resource"
    /\ rarg[2][1] = "add_resource"
    /\ <<rarg[1][2], LowerCase(rarg[1][3])>> # <<rarg[2][2], LowerCase(rarg[2][3])>>
    /\ Lookup(file, rarg[1][2], LowerCase(rarg[1][3])) = None
    /\ Lookup(file, rarg[2][2], LowerCase(rarg[2][3])) = rarg[2][4]

====
